---- MODULE Spec2Model ----
(***************************************************************************)
(* Verification model of topographic-profiles:                             *)
(*   src/profile-generator.py  (cross-section generator, "the generator")  *)
(*   src/profile-viewer.py     (multi-profile viewer, "the viewer")        *)
(*                                                                         *)
(* Numbers.  Python's int/float values are modelled as exact rationals     *)
(* <<num, den>> in lowest terms with den > 0; Python's None is the pair    *)
(* <<0, 0>>.  Floating-point rounding (1 ulp) is not represented.          *)
(* Sequences are 1-based here and 0-based in the source; every index       *)
(* expression keeps the source's arithmetic, shifted by one.               *)
(***************************************************************************)
EXTENDS Integers, Sequences, FiniteSets, TLC

VARIABLES
    data,            \* the list passed to a signal function
    window,          \* the window argument of the moving averages
    returned,        \* the list the called function returned
    called,          \* which signal function produced `returned`
    locations,       \* fetch_elevation_open_elevation: the requested points, in order
    chunk_i,         \* fetch_elevation_open_elevation: loop variable i (0-based)
    elevations,      \* fetch_elevation_open_elevation: accumulated result
    fetch_pc,        \* fetch_elevation_open_elevation: control position
    pc,              \* __main__: control position
    dist_idx,        \* __main__: position of the for loop in `distances`
    elevation_data,  \* __main__: the module-level elevation_data
    run_status,      \* __main__: per offset: "pending", "running", "done", "failed"
    lookups,         \* __main__: per offset: number of lookup calls made
    lookup_results,  \* history: per offset, the list the lookup returned to __main__
    error,           \* __main__: the except clause that ran: "none", "RequestException", "Exception"
    elevation_csv,   \* files *_elevation.csv      : prefix -> elevation column
    profile_json,    \* files *_profile.json       : prefix -> elevations
    display_csv,     \* files *_display_coords.csv : prefix -> rows
    coordinates_csv, \* files *_coordinates.csv    : set of prefixes written
    screen_points,   \* points drawn by show_elevation_profile (<<>> if no window)
    frame_data,      \* frame functions: the elevation list passed in
    frame_km,        \* frame functions: the length_km passed in
    frame_called,    \* frame functions: which one ran ("none" before the call)
    frame,           \* frame functions: <<WIDTH, HEIGHT, scale>> once computed, else <<>>
    frame_points,    \* frame functions: the (x, y) computed for the samples, in order
    frame_raised,    \* frame functions: the exception that ended the call, or "none"
    geodesic,        \* dest_point for the fixed centre and half length: bearing -> (lat, lon)
    move_bearing_deg,\* line functions: the movement bearing passed in
    line_n,          \* line functions: the point count n passed in
    line_called,     \* line functions: which one ran ("none" before the call)
    line_points,     \* line functions: the returned list of (lat, lon)
    line_raised,     \* line functions: the exception that ended the call, or "none"
    dest_origin,     \* round trip: sin(lat) of the origin O
    dest_bearing,    \* round trip: the bearing t in degrees
    dest_dist,       \* round trip: <<sin, cos>> of the angular distance d / R
    dest_pc,         \* round trip: "start", "there" (first call made), "back" (second call made)
    dest_there,      \* round trip: what dest_point(O, t, d) returned
    dest_back        \* round trip: what dest_point(there, t + 180, d) returned

signal_vars == <<data, window, returned, called>>
fetch_vars == <<locations, chunk_i, elevations, fetch_pc>>
main_vars == <<pc, dist_idx, elevation_data, run_status, lookups, lookup_results,
               error, elevation_csv, profile_json, display_csv, coordinates_csv,
               screen_points>>
frame_vars == <<frame_data, frame_km, frame_called, frame, frame_points, frame_raised>>
line_vars == <<geodesic, move_bearing_deg, line_n, line_called, line_points, line_raised>>
dest_vars == <<dest_origin, dest_bearing, dest_dist, dest_pc, dest_there, dest_back>>
vars == <<data, window, returned, called, locations, chunk_i, elevations,
          fetch_pc, pc, dist_idx, elevation_data, run_status, lookups,
          lookup_results, error, elevation_csv, profile_json, display_csv,
          coordinates_csv, screen_points, frame_data, frame_km, frame_called,
          frame, frame_points, frame_raised, geodesic, move_bearing_deg, line_n,
          line_called, line_points, line_raised, dest_origin, dest_bearing,
          dest_dist, dest_pc, dest_there, dest_back>>

----------------------------------------------------------------------------
(* Bounds of the model *)

\* longest list given to interpolate_missing
MaxLen == 4
\* longest list given to the moving averages
MaxSmoothLen == 5
\* window arguments range over -MaxWindow .. MaxWindow
MaxWindow == 5
\* most points requested from the lookup when it is exercised on its own
MaxPoints == 201
\* longest list given to the frame functions
MaxFrameLen == 3
\* length_km arguments range over -MaxKm .. MaxKm
MaxKm == 10
\* point counts n range over -MaxCount .. MaxCount
MaxCount == 4

----------------------------------------------------------------------------
(* Exact arithmetic *)

Abs(x) == IF x < 0 THEN -x ELSE x

RECURSIVE GCD(_, _)
GCD(a, b) == IF b = 0 THEN a ELSE GCD(b, a % b)

\* the rational n/d (d # 0) in lowest terms with a positive denominator
Norm(n, d) ==
    LET g == GCD(Abs(n), Abs(d))
        s == IF d < 0 THEN -1 ELSE 1
    IN <<(s * n) \div g, (s * d) \div g>>

None == <<0, 0>>
IsNone(v) == v[2] = 0
R(i) == <<i, 1>>

Add(x, y) == Norm(x[1] * y[2] + y[1] * x[2], x[2] * y[2])
Sub(x, y) == Norm(x[1] * y[2] - y[1] * x[2], x[2] * y[2])
Mul(x, y) == Norm(x[1] * y[1], x[2] * y[2])
\* true division x / y, y # 0
Div(x, y) == Norm(x[1] * y[2], x[2] * y[1])
Less(x, y) == x[1] * y[2] < y[1] * x[2]
Leq(x, y) == x[1] * y[2] <= y[1] * x[2]

Min2(a, b) == IF a < b THEN a ELSE b
Max2(a, b) == IF a > b THEN a ELSE b

\* Python's sum() of a list of numbers
RECURSIVE Sum(_)
Sum(s) == IF s = <<>> THEN R(0) ELSE Add(s[1], Sum(Tail(s)))

\* Python's max() of a non-empty list of numbers
Max(s) == s[CHOOSE k \in 1..Len(s) : \A j \in 1..Len(s) : Leq(s[j], s[k])]

\* Python's s[lo:hi] for 0-based lo, hi (negative bounds count from the end)
PySlice(s, lo, hi) ==
    LET n == Len(s)
        clip(k) == IF k < 0 THEN Max2(n + k, 0) ELSE Min2(k, n)
        a == clip(lo)
        b == clip(hi)
    IN IF a >= b THEN <<>> ELSE SubSeq(s, a + 1, b)

\* all sequences over S of length 0 .. n
SeqsUpTo(S, n) == UNION {[1..k -> S] : k \in 0..n}

----------------------------------------------------------------------------
(* show_elevation_profile.interpolate_missing *)

\* while left >= 0 and new_data[left] is None: left -= 1
RECURSIVE ScanLeft(_, _)
ScanLeft(new_data, left) ==
    IF left >= 1 /\ IsNone(new_data[left]) THEN ScanLeft(new_data, left - 1)
    ELSE left

\* while right < n and new_data[right] is None: right += 1
RECURSIVE ScanRight(_, _)
ScanRight(new_data, right) ==
    IF right <= Len(new_data) /\ IsNone(new_data[right])
    THEN ScanRight(new_data, right + 1)
    ELSE right

\* a plausible slip: the weight is taken over the gap's sample count
LinearInterpolationOffByOne(new_data, i, left, right) ==
    Add(new_data[left],
        Div(Mul(Sub(new_data[right], new_data[left]), R(i - left)),
            R(right - left + 1)))

\* new_data[left] + (new_data[right] - new_data[left]) * (i - left) / (right - left)
LinearInterpolation(new_data, i, left, right) ==
    Add(new_data[left],
        Div(Mul(Sub(new_data[right], new_data[left]), R(i - left)),
            R(right - left)))

\* a plausible slip: a one-sided gap is filled with 0 instead of the neighbour
FillValueNoExtrapolation(new_data, i) ==
    LET left == ScanLeft(new_data, i - 1)
        right == ScanRight(new_data, i + 1)
        n == Len(new_data)
    IN IF left >= 1 /\ right <= n THEN LinearInterpolation(new_data, i, left, right)
       ELSE R(0)

\* the value assigned to new_data[i] when new_data[i] is None
FillValue(new_data, i) ==
    LET left == ScanLeft(new_data, i - 1)
        right == ScanRight(new_data, i + 1)
        n == Len(new_data)
    IN IF left >= 1 /\ right <= n THEN LinearInterpolation(new_data, i, left, right)
       ELSE IF left >= 1 THEN new_data[left]
       ELSE IF right <= n THEN new_data[right]
       ELSE R(0)

\* for i, v in enumerate(new_data): the loop from index i on; it reads and
\* writes the same list new_data, so earlier fills are visible to later scans
RECURSIVE InterpolateFrom(_, _)
InterpolateFrom(new_data, i) ==
    IF i > Len(new_data) THEN new_data
    ELSE IF IsNone(new_data[i])
         THEN InterpolateFrom([new_data EXCEPT ![i] = FillValue(new_data, i)], i + 1)
         ELSE InterpolateFrom(new_data, i + 1)

interpolate_missing(d) == InterpolateFrom(d, 1)

\* a plausible slip: mirror a negative elevation instead of raising it to 0
clamp_sea_level_abs(d) == [k \in 1..Len(d) |-> IF Less(d[k], R(0)) THEN Sub(R(0), d[k]) ELSE d[k]]

\* data = [max(0, elev) for elev in data]
clamp_sea_level(d) == [k \in 1..Len(d) |-> IF Less(d[k], R(0)) THEN R(0) ELSE d[k]]

----------------------------------------------------------------------------
(* Moving averages *)

\* a plausible slip: divide by the window width instead of the included count
WindowMeanFixedDivisor(d, i, half) ==
    LET left == Max2(0, i - half)
        right == Min2(Len(d), i + half + 1)
    IN Div(Sum(PySlice(d, left, right)), R(2 * half + 1))

\* generator: sum(data[left:right]) / (right - left) for the 0-based index i
WindowMean(d, i, half) ==
    LET left == Max2(0, i - half)
        right == Min2(Len(d), i + half + 1)
    IN Div(Sum(PySlice(d, left, right)), R(right - left))

\* a plausible slip: half = window instead of window // 2
smooth_elevation_full_half(d, w) ==
    IF w <= 1 THEN d
    ELSE [k \in 1..Len(d) |-> WindowMean(d, k - 1, w)]

\* generator: show_elevation_profile.smooth_elevation; half = window // 2
smooth_elevation(d, w) ==
    IF w <= 1 THEN d
    ELSE LET half == w \div 2
         IN [k \in 1..Len(d) |-> WindowMean(d, k - 1, half)]

\* viewer: sum(data[left:right]) / (right - left) for the 0-based index i
ViewerWindowMean(d, i, half) ==
    LET left == Max2(0, i - half)
        right == Min2(Len(d), i + half + 1)
    IN Div(Sum(PySlice(d, left, right)), R(right - left))

\* viewer: smooth; half = window // 2, and no guard on window
smooth(d, w) ==
    LET half == w \div 2
    IN [k \in 1..Len(d) |-> ViewerWindowMean(d, k - 1, half)]

----------------------------------------------------------------------------
(* fetch_elevation_open_elevation *)

\* for i in range(0, len(locations), 100)
ChunkSize == 100

\* The service's answers.  A point is its 0-based position on the cross
\* section; a request is answered from one of these terrains, and a 200
\* response carries one result per location of the chunk, in order.
Terrains == {"sea", "ridge", "slope"}

Elevation(t, p) ==
    IF t = "sea" THEN R(-5)
    ELSE IF t = "ridge" THEN R(1000 - 20 * Abs(p - 50))
    ELSE R(10 * p)

\* chunk = locations[i : i + 100]
Chunk == PySlice(locations, chunk_i, chunk_i + ChunkSize)

\* [r["elevation"] for r in data["results"]]
Results(t, chunk) == [k \in 1..Len(chunk) |-> Elevation(t, chunk[k])]

\* a plausible slip: one None for the whole failed chunk
NoneListSingle(chunk) == <<None>>

\* [None] * len(chunk)
NoneList(chunk) == [k \in 1..Len(chunk) |-> None]

\* a chunk answered with status 200
FetchChunkOk ==
    /\ fetch_pc = "loop"
    /\ chunk_i < Len(locations)
    /\ \E t \in Terrains : elevations' = elevations \o Results(t, Chunk)
    /\ chunk_i' = chunk_i + ChunkSize
    /\ UNCHANGED <<locations, fetch_pc, signal_vars, main_vars,
                   frame_vars, line_vars, dest_vars>>

\* a chunk answered with another status: "API error"
FetchChunkError ==
    /\ fetch_pc = "loop"
    /\ chunk_i < Len(locations)
    /\ elevations' = elevations \o NoneList(Chunk)
    /\ chunk_i' = chunk_i + ChunkSize
    /\ UNCHANGED <<locations, fetch_pc, signal_vars, main_vars,
                   frame_vars, line_vars, dest_vars>>

\* requests.post raises a RequestException: the call is left without a result
FetchChunkRaise ==
    /\ fetch_pc = "loop"
    /\ chunk_i < Len(locations)
    /\ fetch_pc' = "raised"
    /\ UNCHANGED <<locations, chunk_i, elevations, signal_vars, main_vars,
                   frame_vars, line_vars, dest_vars>>

\* return elevations
FetchReturn ==
    /\ fetch_pc = "loop"
    /\ chunk_i >= Len(locations)
    /\ fetch_pc' = "returned"
    /\ UNCHANGED <<locations, chunk_i, elevations, signal_vars, main_vars,
                   frame_vars, line_vars, dest_vars>>

Fetch == FetchChunkOk \/ FetchChunkError \/ FetchChunkRaise \/ FetchReturn

----------------------------------------------------------------------------
(* Formatting and the frame arithmetic *)

RECURSIVE Pow10(_)
Pow10(k) == IF k = 0 THEN 1 ELSE 10 * Pow10(k - 1)

\* int(x): truncation towards zero
Trunc(x) ==
    IF x[1] >= 0 THEN x[1] \div x[2] ELSE -((-x[1]) \div x[2])

\* f"{x:.kf}": the nearest decimal with k places, an exact tie going to the
\* even last digit; the text is modelled by the number it denotes
Fmt(x, k) ==
    LET n == x[1] * Pow10(k)
        d == x[2]
        fl == n \div d
        rem == n - fl * d
        up == \/ 2 * rem > d
              \/ 2 * rem = d /\ fl % 2 = 1
    IN Norm(IF up THEN fl + 1 ELSE fl, Pow10(k))

\* f"{elev:.1f}" if elev is not None else "N/A"
FmtElevation(elev) == IF IsNone(elev) THEN None ELSE Fmt(elev, 1)

margin == 40
FIXED_WIDTH == 1280

\* scale = inner_width / max_distance_km, max_distance_km = length_km * 1000 / 1000
Scale(len_km) == Div(R(FIXED_WIDTH - 2 * margin), Div(Mul(len_km, R(1000)), R(1000)))

\* a plausible slip: the plot height rounded to the nearest integer
HeightRounded(max_elev, len_km) ==
    LET elev_range == Add(Sub(max_elev, R(0)), R(1))
        elev_range_km == Div(elev_range, R(1000))
    IN Trunc(Fmt(Mul(elev_range_km, Scale(len_km)), 0)) + 2 * margin

\* HEIGHT = int(elev_range_km * scale) + 2 * margin, elev_range = max_elev - 0 + 1
Height(max_elev, len_km) ==
    LET elev_range == Add(Sub(max_elev, R(0)), R(1))
        elev_range_km == Div(elev_range, R(1000))
    IN Trunc(Mul(elev_range_km, Scale(len_km))) + 2 * margin

\* dist_km of the 0-based sample i of n, as show_elevation_profile computes it
DistKm(len_km, i, n) == Div(Mul(len_km, R(i)), R(n - 1))

ScreenX(dist_km, len_km) == Add(R(margin), Mul(dist_km, Scale(len_km)))

\* y = HEIGHT - margin - ((elev - min_elev) / 1000) * scale
ScreenY(elev, height, len_km) ==
    Sub(R(height - margin), Mul(Div(Sub(elev, R(0)), R(1000)), Scale(len_km)))

\* show_elevation_profile: the data it plots (interpolate, clamp, smooth 3)
Preprocess(d) == smooth_elevation(clamp_sea_level(interpolate_missing(d)), 3)

\* show_elevation_profile: the points handed to pygame.draw.aalines
ShowElevationProfilePoints(d, len_km) ==
    LET dd == Preprocess(d)
        height == Height(Max(dd), len_km)
    IN [k \in 1..Len(dd) |->
          <<ScreenX(DistKm(len_km, k - 1, Len(dd)), len_km),
            ScreenY(dd[k], height, len_km)>>]

\* save_display_coordinates_csv: the rows Index, Distance_km, Elevation_m,
\* Screen_X, Screen_Y written for the list d exactly as it was passed in
DisplayRows(d, len_km) ==
    LET max_elev == IF d # <<>> THEN Max(d) ELSE R(100)
        height == Height(max_elev, len_km)
    IN [k \in 1..Len(d) |->
          LET dist_km == IF Len(d) > 1 THEN DistKm(len_km, k - 1, Len(d)) ELSE R(0)
          IN <<k - 1,
               Fmt(dist_km, 3),
               FmtElevation(d[k]),
               Fmt(ScreenX(dist_km, len_km), 1),
               Fmt(ScreenY(d[k], height, len_km), 1)>>]

\* save_elevation_csv: the Elevation_m column
ElevationColumn(d) == [k \in 1..Len(d) |-> FmtElevation(d[k])]

\* the file f after writing content c under the name prefix p
Write(f, p, c) == [q \in DOMAIN f \cup {p} |-> IF q = p THEN c ELSE f[q]]

----------------------------------------------------------------------------
(* __main__ of the generator *)

length_km == 20
distances == <<-20, -10, 0>>

\* n_points = int(length_km * 1000 / 200) + 1
n_points == Trunc(Div(R(length_km * 1000), R(200))) + 1

dummy_data ==
    <<R(100), R(120), R(130), R(140), R(160), R(180), R(170), R(150), R(140),
      R(130), R(120), R(110), R(100), R(90), R(80), R(85), R(90), R(100),
      R(120), R(140)>>

\* output_prefix = f"cross_section_{move_distance_km}km"
OutputPrefix(move_distance_km) == "cross_section_" \o ToString(move_distance_km) \o "km"

\* a plausible slip: the fallback reuses the prefix of the offset that failed
DummyPrefixOfOffset == OutputPrefix(distances[dist_idx])

\* output_prefix = "cross_section_dummy"
DummyPrefix == "cross_section_dummy"

\* for move_distance_km in distances: the head of an iteration up to the call
\* of the lookup (centre, cross-section points, summary file)
MainNextDistance ==
    /\ pc = "loop"
    /\ dist_idx < Len(distances)
    /\ dist_idx' = dist_idx + 1
    /\ run_status' = [run_status EXCEPT ![dist_idx + 1] = "running"]
    /\ coordinates_csv' = coordinates_csv \cup {OutputPrefix(distances[dist_idx + 1])}
    /\ lookups' = [lookups EXCEPT ![dist_idx + 1] = @ + 1]
    /\ locations' = [k \in 1..n_points |-> k - 1]
    /\ chunk_i' = 0
    /\ elevations' = <<>>
    /\ fetch_pc' = "loop"
    /\ pc' = "fetching"
    /\ UNCHANGED <<elevation_data, lookup_results, error, elevation_csv,
                   profile_json, display_csv, screen_points, signal_vars,
                   frame_vars, line_vars, dest_vars>>

\* if not elevation_data or any(e is None for e in elevation_data)
FetchFailed(d) == d = <<>> \/ {k \in 1..Len(d) : IsNone(d[k])} # {}

\* the lookup returned a complete list: the three files of the offset are saved
MainSaveOutputs ==
    /\ pc = "fetching"
    /\ fetch_pc = "returned"
    /\ ~FetchFailed(elevations)
    /\ elevation_data' = elevations
    /\ lookup_results' = Append(lookup_results, elevations)
    /\ LET prefix == OutputPrefix(distances[dist_idx])
       IN /\ elevation_csv' = Write(elevation_csv, prefix, ElevationColumn(elevations))
          /\ profile_json' = Write(profile_json, prefix, elevations)
          /\ display_csv' = Write(display_csv, prefix, DisplayRows(elevations, R(length_km)))
    /\ run_status' = [run_status EXCEPT ![dist_idx] = "done"]
    /\ fetch_pc' = "idle"
    /\ pc' = "loop"
    /\ UNCHANGED <<dist_idx, lookups, error, coordinates_csv, screen_points,
                   locations, chunk_i, elevations, signal_vars,
                   frame_vars, line_vars, dest_vars>>

\* both except clauses: the dummy profile is saved and shown
UseDummyData ==
    /\ elevation_csv' = Write(elevation_csv, DummyPrefix, ElevationColumn(dummy_data))
    /\ profile_json' = Write(profile_json, DummyPrefix, dummy_data)
    /\ display_csv' = Write(display_csv, DummyPrefix, DisplayRows(dummy_data, R(20)))
    /\ screen_points' = ShowElevationProfilePoints(dummy_data, R(20))
    /\ pc' = "window"

\* the lookup returned a list that is empty or holds a None:
\* raise Exception("Failed to fetch elevation data"), handled by except Exception
MainRaiseFailedToFetch ==
    /\ pc = "fetching"
    /\ fetch_pc = "returned"
    /\ FetchFailed(elevations)
    /\ elevation_data' = elevations
    /\ lookup_results' = Append(lookup_results, elevations)
    /\ run_status' = [run_status EXCEPT ![dist_idx] = "failed"]
    /\ error' = "Exception"
    /\ fetch_pc' = "idle"
    /\ UseDummyData
    /\ UNCHANGED <<dist_idx, lookups, coordinates_csv,
                   locations, chunk_i, elevations, signal_vars,
                   frame_vars, line_vars, dest_vars>>

\* the lookup raised: handled by except requests.exceptions.RequestException
MainRequestException ==
    /\ pc = "fetching"
    /\ fetch_pc = "raised"
    /\ run_status' = [run_status EXCEPT ![dist_idx] = "failed"]
    /\ error' = "RequestException"
    /\ fetch_pc' = "idle"
    /\ UseDummyData
    /\ UNCHANGED <<dist_idx, elevation_data, lookup_results, lookups, coordinates_csv,
                   locations, chunk_i, elevations, signal_vars,
                   frame_vars, line_vars, dest_vars>>

\* the for loop is exhausted: "All distances processed!"
MainAllProcessed ==
    /\ pc = "loop"
    /\ dist_idx = Len(distances)
    /\ pc' = "finished"
    /\ UNCHANGED <<dist_idx, elevation_data, run_status, lookups, lookup_results,
                   error, elevation_csv, profile_json, display_csv,
                   coordinates_csv, screen_points, fetch_vars, signal_vars,
                   frame_vars, line_vars, dest_vars>>

\* show_elevation_profile's event loop: pygame.QUIT, then sys.exit()
WindowQuit ==
    /\ pc = "window"
    /\ pc' = "exited"
    /\ UNCHANGED <<dist_idx, elevation_data, run_status, lookups, lookup_results,
                   error, elevation_csv, profile_json, display_csv,
                   coordinates_csv, screen_points, fetch_vars, signal_vars,
                   frame_vars, line_vars, dest_vars>>

\* the state when the for loop is entered (old cross_section_*km_* files removed)
Init ==
    /\ pc = "loop"
    /\ dist_idx = 0
    /\ elevation_data = <<>>
    /\ run_status = [k \in 1..Len(distances) |-> "pending"]
    /\ lookups = [k \in 1..Len(distances) |-> 0]
    /\ lookup_results = <<>>
    /\ error = "none"
    /\ elevation_csv = <<>>
    /\ profile_json = <<>>
    /\ display_csv = <<>>
    /\ coordinates_csv = {}
    /\ screen_points = <<>>
    /\ locations = <<>>
    /\ chunk_i = 0
    /\ elevations = <<>>
    /\ fetch_pc = "idle"
    /\ data = <<>>
    /\ window = 3
    /\ returned = <<>>
    /\ called = "none"
    /\ frame_data = <<>>
    /\ frame_km = 0
    /\ frame_called = "none"
    /\ frame = <<>>
    /\ frame_points = <<>>
    /\ frame_raised = "none"
    /\ geodesic = <<>>
    /\ move_bearing_deg = 0
    /\ line_n = 0
    /\ line_called = "none"
    /\ line_points = <<>>
    /\ line_raised = "none"
    /\ dest_origin = R(0)
    /\ dest_bearing = 0
    /\ dest_dist = <<R(0), R(1)>>
    /\ dest_pc = "start"
    /\ dest_there = <<>>
    /\ dest_back = <<>>

Next ==
    \/ MainNextDistance
    \/ Fetch
    \/ MainSaveOutputs
    \/ MainRaiseFailedToFetch
    \/ MainRequestException
    \/ MainAllProcessed
    \/ WindowQuit

Spec == Init /\ [][Next]_vars

----------------------------------------------------------------------------
(* States in which the lookup and __main__ are not running *)

FetchIdle ==
    /\ locations = <<>>
    /\ chunk_i = 0
    /\ elevations = <<>>
    /\ fetch_pc = "idle"

MainIdle ==
    /\ pc = "idle"
    /\ dist_idx = 0
    /\ elevation_data = <<>>
    /\ run_status = <<>>
    /\ lookups = <<>>
    /\ lookup_results = <<>>
    /\ error = "none"
    /\ elevation_csv = <<>>
    /\ profile_json = <<>>
    /\ display_csv = <<>>
    /\ coordinates_csv = {}
    /\ screen_points = <<>>

SignalIdle ==
    /\ data = <<>>
    /\ window = 3
    /\ returned = <<>>
    /\ called = "none"

FrameIdle ==
    /\ frame_data = <<>>
    /\ frame_km = 0
    /\ frame_called = "none"
    /\ frame = <<>>
    /\ frame_points = <<>>
    /\ frame_raised = "none"

LineIdle ==
    /\ geodesic = <<>>
    /\ move_bearing_deg = 0
    /\ line_n = 0
    /\ line_called = "none"
    /\ line_points = <<>>
    /\ line_raised = "none"

DestIdle ==
    /\ dest_origin = R(0)
    /\ dest_bearing = 0
    /\ dest_dist = <<R(0), R(1)>>
    /\ dest_pc = "start"
    /\ dest_there = <<>>
    /\ dest_back = <<>>

----------------------------------------------------------------------------
(* SpecInterp: interpolate_missing and the clamp on bounded inputs *)

InterpValues == {R(-5), R(0), R(10), R(50), R(100), R(130)}

InitInterp ==
    /\ data \in SeqsUpTo(InterpValues \cup {None}, MaxLen)
    /\ window = 3
    /\ returned = <<>>
    /\ called = "none"
    /\ FetchIdle
    /\ MainIdle
    /\ FrameIdle
    /\ LineIdle
    /\ DestIdle

\* data = interpolate_missing(data)
CallInterpolateMissing ==
    /\ called = "none"
    /\ returned' = interpolate_missing(data)
    /\ called' = "interpolate_missing"
    /\ UNCHANGED <<data, window, fetch_vars, main_vars,
                   frame_vars, line_vars, dest_vars>>

\* data = [max(0, elev) for elev in data], applied to the interpolated list
CallClampSeaLevel ==
    /\ called = "interpolate_missing"
    /\ returned' = clamp_sea_level(returned)
    /\ called' = "clamp_sea_level"
    /\ UNCHANGED <<data, window, fetch_vars, main_vars,
                   frame_vars, line_vars, dest_vars>>

NextInterp == CallInterpolateMissing \/ CallClampSeaLevel

SpecInterp == InitInterp /\ [][NextInterp]_vars

----------------------------------------------------------------------------
(* SpecSmooth: both moving averages on bounded inputs and windows *)

SmoothValues == {R(10), R(20), R(30), R(40)}

InitSmooth ==
    /\ data \in SeqsUpTo(SmoothValues, MaxSmoothLen)
    /\ window \in (-MaxWindow)..MaxWindow
    /\ returned = <<>>
    /\ called = "none"
    /\ FetchIdle
    /\ MainIdle
    /\ FrameIdle
    /\ LineIdle
    /\ DestIdle

\* generator: smooth_elevation(data, window)
CallSmoothElevation ==
    /\ called = "none"
    /\ returned' = smooth_elevation(data, window)
    /\ called' = "smooth_elevation"
    /\ UNCHANGED <<data, window, fetch_vars, main_vars,
                   frame_vars, line_vars, dest_vars>>

\* viewer: smooth(data, window)
CallSmooth ==
    /\ called = "none"
    /\ returned' = smooth(data, window)
    /\ called' = "smooth"
    /\ UNCHANGED <<data, window, fetch_vars, main_vars,
                   frame_vars, line_vars, dest_vars>>

NextSmooth == CallSmoothElevation \/ CallSmooth

SpecSmooth == InitSmooth /\ [][NextSmooth]_vars

----------------------------------------------------------------------------
(* SpecFetch: the lookup on its own, for every number of points *)

\* points 0 .. n-1 of a cross section
PointList(n) == [k \in 1..n |-> k - 1]

InitFetch ==
    /\ \E n \in 0..MaxPoints : locations = PointList(n)
    /\ chunk_i = 0
    /\ elevations = <<>>
    /\ fetch_pc = "loop"
    /\ SignalIdle
    /\ MainIdle
    /\ FrameIdle
    /\ LineIdle
    /\ DestIdle

SpecFetch == InitFetch /\ [][Fetch]_vars

----------------------------------------------------------------------------
(* SpecFrame: the frame and the projection of both frame functions *)

\* a plausible slip: pixel y grows with the elevation
ProjectUnflipped(dist_km, elev, height, len_km) ==
    <<ScreenX(dist_km, len_km),
      Add(R(margin), Mul(Div(Sub(elev, R(0)), R(1000)), Scale(len_km)))>>

\* x = margin + dist_km * scale; y = HEIGHT - margin - ((elev - min_elev) / 1000) * scale
Project(dist_km, elev, height, len_km) ==
    <<ScreenX(dist_km, len_km), ScreenY(elev, height, len_km)>>

\* the results of a frame function: the exception raised, the frame reached
\* and the points computed
Outcome(raised, fr, points) == <<raised, fr, points>>

\* show_elevation_profile up to pygame.display.flip(): max() of an empty list
\* raises ValueError, a zero length_km raises ZeroDivisionError at the scale,
\* pygame.display.set_mode refuses a negative HEIGHT (pygame.error), a single
\* sample raises ZeroDivisionError in the points loop, after the window has
\* been sized
show_elevation_profile(d, len_km) ==
    LET dd == Preprocess(d)
    IN IF dd = <<>> THEN Outcome("ValueError", <<>>, <<>>)
       ELSE IF len_km = R(0) THEN Outcome("ZeroDivisionError", <<>>, <<>>)
       ELSE LET height == Height(Max(dd), len_km)
                fr == <<FIXED_WIDTH, height, Scale(len_km)>>
            IN IF height < 0 THEN Outcome("pygame.error", <<>>, <<>>)
               ELSE IF Len(dd) = 1 THEN Outcome("ZeroDivisionError", fr, <<>>)
               ELSE Outcome("none", fr,
                      [k \in 1..Len(dd) |->
                          Project(DistKm(len_km, k - 1, Len(dd)), dd[k], height, len_km)])

\* save_display_coordinates_csv: screen_x, screen_y of every row before they
\* are formatted; a zero length_km raises ZeroDivisionError at the scale,
\* an empty list takes max_elev = 100, a single sample takes dist_km = 0
save_display_coordinates_csv(d, len_km) ==
    IF len_km = R(0) THEN Outcome("ZeroDivisionError", <<>>, <<>>)
    ELSE LET max_elev == IF d # <<>> THEN Max(d) ELSE R(100)
             height == Height(max_elev, len_km)
             fr == <<FIXED_WIDTH, height, Scale(len_km)>>
         IN Outcome("none", fr,
              [k \in 1..Len(d) |->
                  LET dist_km == IF Len(d) > 1 THEN DistKm(len_km, k - 1, Len(d)) ELSE R(0)
                  IN Project(dist_km, d[k], height, len_km)])

FrameValues == {R(-5), R(0), R(9), R(1000)}

InitFrame ==
    /\ frame_data \in SeqsUpTo(FrameValues, MaxFrameLen)
    /\ frame_km \in (-MaxKm)..MaxKm
    /\ frame_called = "none"
    /\ frame = <<>>
    /\ frame_points = <<>>
    /\ frame_raised = "none"
    /\ SignalIdle
    /\ FetchIdle
    /\ MainIdle
    /\ LineIdle
    /\ DestIdle

CallShowElevationProfile ==
    /\ frame_called = "none"
    /\ LET out == show_elevation_profile(frame_data, R(frame_km))
       IN /\ frame_raised' = out[1]
          /\ frame' = out[2]
          /\ frame_points' = out[3]
    /\ frame_called' = "show_elevation_profile"
    /\ UNCHANGED <<frame_data, frame_km, signal_vars, fetch_vars, main_vars, line_vars, dest_vars>>

CallSaveDisplayCoordinatesCsv ==
    /\ frame_called = "none"
    /\ LET out == save_display_coordinates_csv(frame_data, R(frame_km))
       IN /\ frame_raised' = out[1]
          /\ frame' = out[2]
          /\ frame_points' = out[3]
    /\ frame_called' = "save_display_coordinates_csv"
    /\ UNCHANGED <<frame_data, frame_km, signal_vars, fetch_vars, main_vars, line_vars, dest_vars>>

NextFrame == CallShowElevationProfile \/ CallSaveDisplayCoordinatesCsv

SpecFrame == InitFrame /\ [][NextFrame]_vars

----------------------------------------------------------------------------
(* generate_cross_section_points on its own: SpecLine *)

\* The destination function is trigonometric; here geodesic[b] stands for
\* dest_point(center_lat, center_lon, b, half) of the call's centre and half
\* length, an arbitrary coordinate per bearing chosen at the start.
Bearings == {-90, 0}
DestBearings == {b - 90 : b \in Bearings} \cup {b + 90 : b \in Bearings}
Coords == {<<R(35), R(138)>>, <<Norm(71, 2), R(139)>>, <<R(36), Norm(277, 2)>>}

\* a plausible slip: divide by n instead of n - 1
generate_line_points_by_n(lat1, lon1, lat2, lon2, count) ==
    IF count <= 0 THEN <<"none", <<>>>>
    ELSE <<"none",
           [k \in 1..count |->
               <<Add(lat1, Div(Mul(Sub(lat2, lat1), R(k - 1)), R(count))),
                 Add(lon1, Div(Mul(Sub(lon2, lon1), R(k - 1)), R(count)))>>]>>

\* [(lat1 + (lat2 - lat1) * i / (n - 1), lon1 + (lon2 - lon1) * i / (n - 1))
\*  for i in range(n)]: range(n) is empty for n <= 0, and n = 1 divides by 0;
\* the result is the exception raised and the list returned
generate_line_points(lat1, lon1, lat2, lon2, count) ==
    IF count <= 0 THEN <<"none", <<>>>>
    ELSE IF count = 1 THEN <<"ZeroDivisionError", <<>>>>
    ELSE <<"none",
           [k \in 1..count |->
               <<Add(lat1, Div(Mul(Sub(lat2, lat1), R(k - 1)), R(count - 1))),
                 Add(lon1, Div(Mul(Sub(lon2, lon1), R(k - 1)), R(count - 1)))>>]>>

\* left = dest_point(centre, move_bearing_deg - 90, half), right likewise at
\* + 90, then generate_line_points(left, right, n)
generate_cross_section_points(dest, bearing, count) ==
    LET left == dest[bearing - 90]
        right == dest[bearing + 90]
    IN generate_line_points(left[1], left[2], right[1], right[2], count)

InitLine ==
    /\ geodesic \in [DestBearings -> Coords]
    /\ move_bearing_deg \in Bearings
    /\ line_n \in (-MaxCount)..MaxCount
    /\ line_called = "none"
    /\ line_points = <<>>
    /\ line_raised = "none"
    /\ SignalIdle
    /\ FetchIdle
    /\ MainIdle
    /\ FrameIdle
    /\ DestIdle

CallGenerateCrossSectionPoints ==
    /\ line_called = "none"
    /\ LET out == generate_cross_section_points(geodesic, move_bearing_deg, line_n)
       IN /\ line_raised' = out[1]
          /\ line_points' = out[2]
    /\ line_called' = "generate_cross_section_points"
    /\ UNCHANGED <<geodesic, move_bearing_deg, line_n,
                   signal_vars, fetch_vars, main_vars, frame_vars, dest_vars>>

SpecLine == InitLine /\ [][CallGenerateCrossSectionPoints]_vars

----------------------------------------------------------------------------
(* dest_point on its own, called there and back: SpecDest *)

\* Angles are carried by their exact sine and cosine. A latitude is its sine
\* (asin is a bijection onto -90..90 degrees), an angular distance d / R is the
\* pair <<sin, cos>>, a bearing is a multiple of 90 degrees. The longitude
\* step atan2(y, x) is carried as <<sign(y) * y^2, x>>, which fixes the angle
\* and needs no square root. Rounding of the doubles, about 1e-16, is far
\* below any difference examined here and is left out.
SinOrigins == {R(0), Norm(3, 5), Norm(-3, 5), Norm(4, 5), Norm(-4, 5)}
RoundTripBearings == {0, 90, 180, 270}
AngularDistances == {<<R(0), R(1)>>, <<Norm(5, 13), Norm(12, 13)>>, <<Norm(12, 13), Norm(5, 13)>>}

\* math.sin, math.cos of math.radians(bearing_deg) for multiples of 90
SinDeg(b) == LET q == (b % 360) \div 90 IN IF q = 1 THEN 1 ELSE IF q = 3 THEN -1 ELSE 0
CosDeg(b) == LET q == (b % 360) \div 90 IN IF q = 0 THEN 1 ELSE IF q = 2 THEN -1 ELSE 0

Sgn(i) == IF i > 0 THEN 1 ELSE IF i < 0 THEN -1 ELSE 0

\* math.cos(lat1) for lat1 in -90..90 degrees given sin(lat1) = s: the
\* non-negative root of 1 - s^2 (used where that root is rational)
CosLat(s) == Norm(CHOOSE c \in 0..s[2] : c * c = s[2] * s[2] - s[1] * s[1], s[2])

\* a plausible slip: sin(bearing) in place of cos(bearing) in the latitude
dest_point_sin_bearing(sin_lat1, bearing_deg, d_div_r) ==
    LET sin_lat2 == Add(Mul(sin_lat1, d_div_r[2]),
                        IF SinDeg(bearing_deg) = 0 THEN R(0)
                        ELSE Mul(Mul(CosLat(sin_lat1), d_div_r[1]), R(SinDeg(bearing_deg))))
    IN <<sin_lat2, <<R(0), Sub(d_div_r[2], Mul(sin_lat1, sin_lat2))>>>>

\* lat2 = asin(sin(lat1) * cos(d_div_r) + cos(lat1) * sin(d_div_r) * cos(bearing))
\* lon2 = lon1 + atan2(sin(bearing) * sin(d_div_r) * cos(lat1),
\*                     cos(d_div_r) - sin(lat1) * sin(lat2))
\* The result is <<sin(lat2), the atan2 step added to lon1>>.
dest_point(sin_lat1, bearing_deg, d_div_r) ==
    LET sin_lat2 == Add(Mul(sin_lat1, d_div_r[2]),
                        IF CosDeg(bearing_deg) = 0 THEN R(0)
                        ELSE Mul(Mul(CosLat(sin_lat1), d_div_r[1]), R(CosDeg(bearing_deg))))
        y_sign == SinDeg(bearing_deg) * Sgn(d_div_r[1][1])
        y_squared == Mul(Mul(d_div_r[1], d_div_r[1]), Sub(R(1), Mul(sin_lat1, sin_lat1)))
        x == Sub(d_div_r[2], Mul(sin_lat1, sin_lat2))
    IN <<sin_lat2, <<Mul(R(y_sign), y_squared), x>>>>

InitDest ==
    /\ dest_origin \in SinOrigins
    /\ dest_bearing \in RoundTripBearings
    /\ dest_dist \in AngularDistances
    /\ dest_pc = "start"
    /\ dest_there = <<>>
    /\ dest_back = <<>>
    /\ SignalIdle
    /\ FetchIdle
    /\ MainIdle
    /\ FrameIdle
    /\ LineIdle

\* there = dest_point(O, t, d)
CallDestPoint ==
    /\ dest_pc = "start"
    /\ dest_there' = dest_point(dest_origin, dest_bearing, dest_dist)
    /\ dest_pc' = "there"
    /\ UNCHANGED <<dest_origin, dest_bearing, dest_dist, dest_back,
                   signal_vars, fetch_vars, main_vars, frame_vars, line_vars>>

\* back = dest_point(there, t + 180, d)
CallDestPointBack ==
    /\ dest_pc = "there"
    /\ dest_back' = dest_point(dest_there[1], dest_bearing + 180, dest_dist)
    /\ dest_pc' = "back"
    /\ UNCHANGED <<dest_origin, dest_bearing, dest_dist, dest_there,
                   signal_vars, fetch_vars, main_vars, frame_vars, line_vars>>

NextDest == CallDestPoint \/ CallDestPointBack

SpecDest == InitDest /\ [][NextDest]_vars

----------------------------------------------------------------------------
(* Properties of interpolate_missing, under SpecInterp *)

\* nearest index left of i that is valid in the list d, or 0
RECURSIVE NearestValidLeft(_, _)
NearestValidLeft(d, i) ==
    IF i <= 1 THEN 0
    ELSE IF ~IsNone(d[i - 1]) THEN i - 1 ELSE NearestValidLeft(d, i - 1)

\* nearest index right of i that is valid in the list d, or Len(d) + 1
RECURSIVE NearestValidRight(_, _)
NearestValidRight(d, i) ==
    IF i >= Len(d) THEN Len(d) + 1
    ELSE IF ~IsNone(d[i + 1]) THEN i + 1 ELSE NearestValidRight(d, i + 1)

\* C2: after interpolate_missing, every sample valid in the input is unchanged,
\* and every absent sample i with valid samples L < i < R nearest to it in the
\* ORIGINAL input holds v[L] + (v[R] - v[L]) * (i - L) / (R - L), stated here as
\* (out[i] - v[L]) * (R - L) = (v[R] - v[L]) * (i - L).
C2_InterpolatesBetweenOriginalNeighbours ==
    called = "interpolate_missing" =>
        /\ Len(returned) = Len(data)
        /\ \A i \in 1..Len(data) :
            LET L == NearestValidLeft(data, i)
                Rt == NearestValidRight(data, i)
            IN /\ ~IsNone(data[i]) => returned[i] = data[i]
               /\ (IsNone(data[i]) /\ L >= 1 /\ Rt <= Len(data)) =>
                     /\ ~IsNone(returned[i])
                     /\ Mul(Sub(returned[i], data[L]), R(Rt - L))
                          = Mul(Sub(data[Rt], data[L]), R(i - L))

\* C2 witness: [100, None, None, 130] was interpolated to [100, 110, 120, 130]
C2_Witness ==
    /\ called = "interpolate_missing"
    /\ data = <<R(100), None, None, R(130)>>
    /\ returned = <<R(100), R(110), R(120), R(130)>>

\* C3: interpolate_missing preserves length and leaves no absent value; an
\* absent sample with valid samples on one side only gets the nearest valid
\* sample of that side, and an all-absent input of length k gives k zeros.
C3_NoAbsentAfterInterpolation ==
    called = "interpolate_missing" =>
        /\ Len(returned) = Len(data)
        /\ \A i \in 1..Len(data) :
            LET L == NearestValidLeft(data, i)
                Rt == NearestValidRight(data, i)
            IN /\ ~IsNone(returned[i])
               /\ (IsNone(data[i]) /\ L = 0 /\ Rt <= Len(data)) =>
                     returned[i] = data[Rt]
               /\ (IsNone(data[i]) /\ L >= 1 /\ Rt > Len(data)) =>
                     returned[i] = data[L]
               /\ (\A j \in 1..Len(data) : IsNone(data[j])) => returned[i] = R(0)

\* C3 witness: [None, None, 50] was repaired to [50, 50, 50]
C3_Witness ==
    /\ called = "interpolate_missing"
    /\ data = <<None, None, R(50)>>
    /\ returned = <<R(50), R(50), R(50)>>

----------------------------------------------------------------------------
(* Properties of the moving averages, under SpecSmooth *)

\* the indices of 1..n among a .. b
Inside(a, b, n) == {j \in a..b : 1 <= j /\ j <= n}

\* the sum of d over the index set J
RECURSIVE SumOver(_, _)
SumOver(d, J) ==
    IF J = {} THEN R(0)
    ELSE LET j == CHOOSE x \in J : TRUE IN Add(d[j], SumOver(d, J \ {j}))

\* out is the list of means of d over the windows i-lo .. i+hi cut to 1..Len(d)
IsWindowMeans(out, d, lo, hi) ==
    /\ Len(out) = Len(d)
    /\ \A i \in 1..Len(d) :
        LET J == Inside(i - lo, i + hi, Len(d))
        IN Mul(out[i], R(Cardinality(J))) = SumOver(d, J)

\* C8: with window 3 each moving average keeps the length and gives, at every
\* index i, the mean of the samples i-1, i, i+1 that exist, divided by how many
\* exist; smooth_elevation and the viewer's smooth agree.
C8_Window3Mean ==
    (called \in {"smooth_elevation", "smooth"} /\ window = 3) =>
        /\ IsWindowMeans(returned, data, 1, 1)
        /\ called = "smooth_elevation" => returned = smooth(data, 3)
        /\ called = "smooth" => returned = smooth_elevation(data, 3)

\* C8 witness: smooth_elevation([10, 20, 30, 40], 3) returned [15, 20, 30, 35]
C8_Witness ==
    /\ called = "smooth_elevation"
    /\ window = 3
    /\ data = <<R(10), R(20), R(30), R(40)>>
    /\ returned = <<R(15), R(20), R(30), R(35)>>

\* index i is far enough from both ends for the window of half-width h
Untruncated(i, h, n) == 1 <= i - h /\ i + h <= n

\* C9 as stated: for every window w > 1, an untruncated output sample is the
\* mean of exactly w input samples centred on it (for even w either of the two
\* w-sample windows around i is accepted).
C9_Original ==
    (called \in {"smooth_elevation", "smooth"} /\ window > 1) =>
        \A i \in 1..Len(data) :
            Untruncated(i, window \div 2, Len(data)) =>
                \E a \in {i - window \div 2, i - (window - 1) \div 2} :
                    /\ 1 <= a
                    /\ a + window - 1 <= Len(data)
                    /\ Mul(returned[i], R(window)) = SumOver(data, a..(a + window - 1))

\* C9 amended: for every window w > 1, an untruncated output sample is the mean
\* of the 2 * (w // 2) + 1 samples i - w//2 .. i + w//2: exactly w samples when
\* w is odd, w + 1 samples when w is even.
C9_CentredOddWindow ==
    (called \in {"smooth_elevation", "smooth"} /\ window > 1) =>
        LET h == window \div 2
        IN \A i \in 1..Len(data) :
            Untruncated(i, h, Len(data)) =>
                /\ Mul(returned[i], R(2 * h + 1)) = SumOver(data, (i - h)..(i + h))
                /\ 2 * h + 1 = IF window % 2 = 1 THEN window ELSE window + 1

\* C9 witness: an even window produced an untruncated sample
C9_Witness ==
    /\ called = "smooth"
    /\ window = 2
    /\ data = <<R(10), R(10), R(40)>>
    /\ returned[2] = R(20)

\* C10: for every window <= 1 each moving average returns a list equal element
\* for element to its input.
C10_NoOpForSmallWindow ==
    (called \in {"smooth_elevation", "smooth"} /\ window <= 1) =>
        /\ Len(returned) = Len(data)
        /\ \A i \in 1..Len(data) : returned[i] = data[i]

----------------------------------------------------------------------------
(* Properties of the lookup, under SpecFetch *)

\* C7: a lookup that returns gives exactly one entry per requested point, in
\* the order of the points: the entries of a chunk answered with an error are
\* all absent, and every other entry is the elevation of the point at that
\* same position, whatever happened to the other chunks.
C7_OneEntryPerPoint ==
    fetch_pc = "returned" =>
        /\ Len(elevations) = Len(locations)
        /\ \A k \in 1..Len(locations) :
            LET first == ((k - 1) \div ChunkSize) * ChunkSize + 1
                last == Min2(first + ChunkSize - 1, Len(locations))
            IN \/ \A j \in first..last : IsNone(elevations[j])
               \/ \E t \in Terrains :
                    \A j \in first..last : elevations[j] = Elevation(t, locations[j])

\* C7 witness: 101 points, first chunk answered, second chunk failed
C7_Witness ==
    /\ fetch_pc = "returned"
    /\ Len(locations) = 101
    /\ ~IsNone(elevations[1])
    /\ ~IsNone(elevations[100])
    /\ Len(elevations) = 101
    /\ IsNone(elevations[101])

----------------------------------------------------------------------------
(* Properties of __main__, under Spec *)

Offsets == 1..Len(distances)
Terminated == pc \in {"finished", "window", "exited"}
HasOutputs(k) ==
    LET prefix == OutputPrefix(distances[k])
    IN /\ prefix \in DOMAIN elevation_csv
       /\ prefix \in DOMAIN profile_json
       /\ prefix \in DOMAIN display_csv

\* C1: a lookup result with some but not all elevations absent is not an
\* error: the run of an offset fails on its lookup result only if every
\* elevation in it is absent, and otherwise it ends with its records emitted.
C1_PartialDataIsNotAnError ==
    \A k \in 1..Len(lookup_results) :
        LET result == lookup_results[k]
        IN (\E j \in 1..Len(result) : ~IsNone(result[j])) =>
              /\ run_status[k] # "failed"
              /\ HasOutputs(k)

\* C4: the display-coordinate rows emitted for an offset are computed from the
\* repaired sequence (interpolate, clamp, smooth): no row carries an absent or
\* negative elevation, and the saved screen coordinates are the ones
\* show_elevation_profile plots for the same data.
C4_RecordsFromRepairedData ==
    \A k \in Offsets :
        run_status[k] = "done" =>
            LET rows == display_csv[OutputPrefix(distances[k])]
                raw == lookup_results[k]
                repaired == Preprocess(raw)
                plotted == ShowElevationProfilePoints(raw, R(length_km))
            IN /\ Len(rows) = Len(raw)
               /\ \A i \in 1..Len(rows) :
                    /\ ~IsNone(rows[i][3])
                    /\ Leq(R(0), rows[i][3])
                    /\ rows[i][3] = Fmt(repaired[i], 1)
                    /\ rows[i][4] = Fmt(plotted[i][1], 1)
                    /\ rows[i][5] = Fmt(plotted[i][2], 1)

\* C5: offsets are run one at a time in list order, the lookup is called at
\* most once per offset, and a failed offset does not keep the other offsets
\* from being run: when the program has ended every offset has completed or
\* failed, and every completed one has its output.
C5_OffsetsIndependent ==
    /\ \A k \in Offsets : lookups[k] <= 1
    /\ \A k \in Offsets :
        run_status[k] # "pending" =>
            \A j \in 1..(k - 1) : run_status[j] \in {"done", "failed"}
    /\ Terminated =>
        \A k \in Offsets :
            /\ run_status[k] \in {"done", "failed"}
            /\ run_status[k] = "done" => HasOutputs(k)

\* what was saved under the prefix p is what the lookup returned for offset k
SavedFromLookup(p, k) ==
    /\ k <= Len(lookup_results)
    /\ elevation_csv[p] = ElevationColumn(lookup_results[k])
    /\ profile_json[p] = lookup_results[k]
    /\ display_csv[p] = DisplayRows(lookup_results[k], R(length_km))

\* C6 as stated: no elevation, profile or display-coordinate output holds
\* values that did not come from the lookup.
C6_Original ==
    /\ DOMAIN elevation_csv = DOMAIN profile_json
    /\ DOMAIN display_csv = DOMAIN profile_json
    /\ \A p \in DOMAIN profile_json : \E k \in Offsets : SavedFromLookup(p, k)

\* C6 amended: every output named for an offset holds exactly what the lookup
\* returned for that offset, which completed; fabricated data appears only
\* after a failure, as the fixed dummy profile under the cross_section_dummy
\* prefix and in the display window.
C6_FabricatedOnlyAsDummy ==
    /\ DOMAIN elevation_csv = DOMAIN profile_json
    /\ DOMAIN display_csv = DOMAIN profile_json
    /\ \A p \in DOMAIN profile_json :
        IF p = "cross_section_dummy"
        THEN /\ error # "none"
             /\ profile_json[p] = dummy_data
             /\ elevation_csv[p] = ElevationColumn(dummy_data)
             /\ display_csv[p] = DisplayRows(dummy_data, R(20))
        ELSE \E k \in Offsets :
                /\ p = OutputPrefix(distances[k])
                /\ run_status[k] = "done"
                /\ SavedFromLookup(p, k)
    /\ error = "none" =>
        /\ "cross_section_dummy" \notin DOMAIN profile_json
        /\ screen_points = <<>>
    /\ error # "none" =>
        /\ "cross_section_dummy" \in DOMAIN profile_json
        /\ Len(screen_points) = Len(dummy_data)

\* C6 witness: the second offset failed after the first had been saved
C6_Witness ==
    /\ error = "Exception"
    /\ run_status = <<"done", "failed", "pending">>
    /\ DOMAIN profile_json = {"cross_section_-20km", "cross_section_dummy"}
    /\ profile_json["cross_section_dummy"] = dummy_data

----------------------------------------------------------------------------
(* Properties of the frame functions, under SpecFrame *)

\* the elevations the frame is computed from: show_elevation_profile repairs
\* its argument first, save_display_coordinates_csv takes it as it is
FrameElevations ==
    IF frame_called = "show_elevation_profile" THEN Preprocess(frame_data)
    ELSE frame_data

\* the exact plot height ((max(elevations) + 1) / 1000) * scale
ExactPlotHeight == Mul(Div(Add(Max(FrameElevations), R(1)), R(1000)), frame[3])

FrameComputed ==
    /\ frame_called # "none"
    /\ frame # <<>>
    /\ frame_data # <<>>

\* C11 as stated: width is 1280, scale is (1280 - 2*40) / distance_km, and
\* height - 2*40 is the exact plot height rounded to the NEAREST integer.
C11_Original ==
    (FrameComputed /\ frame_km > 0 /\ Len(frame_data) >= 2) =>
        /\ frame[1] = FIXED_WIDTH
        /\ Mul(frame[3], R(frame_km)) = R(FIXED_WIDTH - 2 * margin)
        /\ LET diff == Sub(R(frame[2] - 2 * margin), ExactPlotHeight)
           IN Leq(R(-1), Mul(R(2), diff)) /\ Leq(Mul(R(2), diff), R(1))

\* C11 amended: width is 1280, scale is (1280 - 2*40) / distance_km, and
\* height - 2*40 is the exact plot height with its fraction cut off (int(),
\* truncation towards zero).
C11_HeightTruncated ==
    FrameComputed =>
        /\ frame[1] = FIXED_WIDTH
        /\ Mul(frame[3], R(frame_km)) = R(FIXED_WIDTH - 2 * margin)
        /\ LET plot_height == R(frame[2] - 2 * margin)
               e == ExactPlotHeight
           IN IF Leq(R(0), e)
              THEN Leq(plot_height, e) /\ Less(e, Add(plot_height, R(1)))
              ELSE Leq(e, plot_height) /\ Less(Sub(plot_height, R(1)), e)

\* C11 witness: elevations [0, 1000] over 10 km give scale 120 and height 200
C11_Witness ==
    /\ frame_called = "save_display_coordinates_csv"
    /\ frame_data = <<R(0), R(1000)>>
    /\ frame_km = 10
    /\ frame = <<1280, 200, R(120)>>


\* C12: whenever the elevation sequence has fewer than 2 points or
\* distance_km <= 0, computing the frame or projecting fails and neither a
\* frame nor screen coordinates are produced (any exception is accepted here
\* as the failure).
C12_DegenerateInputFails ==
    (frame_called # "none" /\ (Len(frame_data) < 2 \/ frame_km <= 0)) =>
        /\ frame_raised # "none"
        /\ frame = <<>>
        /\ frame_points = <<>>

\* distance_km of record k, as the frame function that ran computes it
RecordDistance(k) ==
    IF Len(FrameElevations) > 1
    THEN DistKm(R(frame_km), k - 1, Len(FrameElevations))
    ELSE R(0)

\* C15: for the frame of one call with distance_km > 0, of two records the one
\* with the larger distance_km has the strictly larger x and the one with the
\* larger elevation_m has the strictly smaller y.
C15_ProjectMonotonic ==
    (frame_called # "none" /\ frame_raised = "none" /\ frame_km > 0) =>
        \A i, j \in 1..Len(frame_points) :
            /\ Less(RecordDistance(i), RecordDistance(j)) =>
                  Less(frame_points[i][1], frame_points[j][1])
            /\ Less(FrameElevations[i], FrameElevations[j]) =>
                  Less(frame_points[j][2], frame_points[i][2])

\* C15 witness: three records of increasing distance and elevation were projected
C15_Witness ==
    /\ frame_called = "save_display_coordinates_csv"
    /\ frame_raised = "none"
    /\ frame_data = <<R(0), R(9), R(1000)>>
    /\ frame_km = 10
    /\ Len(frame_points) = 3
    /\ Less(frame_points[3][2], frame_points[2][2])

\* C18: for a repaired sequence (at least 2 points, all >= 0) and
\* distance_km > 0, every projected point lies in the plotting rectangle of
\* its frame: margin <= x <= width - margin and margin <= y <= height - margin.
C18_PointsInsidePlotArea ==
    (/\ frame_called # "none"
     /\ frame_raised = "none"
     /\ frame_km > 0
     /\ Len(FrameElevations) >= 2
     /\ \A k \in 1..Len(FrameElevations) : Leq(R(0), FrameElevations[k])) =>
        \A k \in 1..Len(frame_points) :
            /\ Leq(R(margin), frame_points[k][1])
            /\ Leq(frame_points[k][1], R(frame[1] - margin))
            /\ Leq(R(margin), frame_points[k][2])
            /\ Leq(frame_points[k][2], R(frame[2] - margin))

----------------------------------------------------------------------------
(* Properties of the sea-level clamp, under SpecInterp *)

\* C16: clamp_sea_level replaces every value below 0 with 0 and leaves every
\* value >= 0 unchanged, preserving length and order; [-5, 0, 10] yields
\* [0, 0, 10].
C16_ClampSeaLevel ==
    called = "clamp_sea_level" =>
        LET input == interpolate_missing(data)
        IN /\ Len(returned) = Len(input)
           /\ \A k \in 1..Len(input) :
                 /\ Less(input[k], R(0)) => returned[k] = R(0)
                 /\ Leq(R(0), input[k]) => returned[k] = input[k]

\* C16 witness: the clamp ran on [-5, 0, 10]
C16_Witness ==
    /\ called = "clamp_sea_level"
    /\ data = <<R(-5), R(0), R(10)>>
    /\ returned = <<R(0), R(0), R(10)>>

----------------------------------------------------------------------------
(* Properties of the cross-section builder, under SpecLine *)

\* C13: building a cross-section fails for every point count n < 2 (1, 0 and
\* negative); no point list, empty or otherwise, is returned (any exception
\* is accepted here as the failure).
C13_SmallCountFails ==
    (line_called # "none" /\ line_n < 2) => line_raised # "none"

\* C14: for every n >= 2 the builder returns exactly n points with
\* point[i] = left + (right - left) * i / (n - 1) in latitude and in longitude,
\* point[0] the left endpoint (bearing - 90) and point[n-1] the right endpoint
\* (bearing + 90).
C14_LinearBetweenEndpoints ==
    (line_called # "none" /\ line_n >= 2) =>
        LET left == geodesic[move_bearing_deg - 90]
            right == geodesic[move_bearing_deg + 90]
        IN /\ line_raised = "none"
           /\ Len(line_points) = line_n
           /\ line_points[1] = left
           /\ line_points[line_n] = right
           /\ \A i \in 0..(line_n - 1) : \A c \in 1..2 :
                 Mul(Sub(line_points[i + 1][c], left[c]), R(line_n - 1))
                     = Mul(Sub(right[c], left[c]), R(i))

\* C14 witness: three points were built between two distinct endpoints, the
\* middle one half way
C14_Witness ==
    /\ line_called = "generate_cross_section_points"
    /\ line_raised = "none"
    /\ line_n = 3
    /\ move_bearing_deg = -90
    /\ geodesic[-180] = <<R(35), R(138)>>
    /\ geodesic[0] = <<R(36), Norm(277, 2)>>
    /\ line_points = <<<<R(35), R(138)>>, <<Norm(71, 2), Norm(553, 4)>>, <<R(36), Norm(277, 2)>>>>

----------------------------------------------------------------------------
(* Properties of the destination round trip, under SpecDest *)

\* 1e-6 degrees is 1.75e-8 radians and |sin a - sin b| <= |a - b|: two
\* latitudes within the tolerance have sines closer than this
SinTolerance == Norm(1, 100000)

\* |x - y| <= tol
Near(x, y, tol) == Leq(Sub(x, y), tol) /\ Leq(Sub(y, x), tol)

\* the atan2 step is the zero angle
ZeroStep(step) == step[1] = R(0) /\ Less(R(0), step[2])

\* the first leg runs along the meridian and does not pass a pole:
\* cos(lat + d) > 0 northwards, cos(lat - d) > 0 southwards
AlongMeridian ==
    /\ dest_bearing \in {0, 180}
    /\ Less(R(0), Sub(Mul(CosLat(dest_origin), dest_dist[2]),
                      Mul(Mul(dest_origin, dest_dist[1]), R(CosDeg(dest_bearing)))))

\* C17 as stated: travelling d at bearing t and then d at bearing t + 180
\* returns to O within about 1e-6 degrees (here: to O's latitude).
C17_Original ==
    dest_pc = "back" => Near(dest_back[1], dest_origin, SinTolerance)

\* C17: travelling d at bearing t and then d at bearing t + 180 returns to O
\* when t is 0 or 180 and the leg does not pass a pole (latitude restored,
\* both longitude steps zero); at bearing 90 or 270 the latitude reached has
\* sin(lat) = sin(lat_O) * cos(d/R)^2, which is O's latitude only for O on the
\* equator (where the two longitude steps cancel) or d = 0 (where both steps
\* are zero).
C17_RoundTripAlongMeridian ==
    dest_pc = "back" =>
        /\ AlongMeridian =>
              /\ dest_back[1] = dest_origin
              /\ ZeroStep(dest_there[2])
              /\ ZeroStep(dest_back[2])
        /\ dest_bearing \in {90, 270} =>
              /\ dest_back[1] = Mul(dest_origin, Mul(dest_dist[2], dest_dist[2]))
              /\ (dest_back[1] = dest_origin) <=>
                     (dest_origin = R(0) \/ dest_dist[1] = R(0))
              /\ dest_origin = R(0) =>
                     dest_back[2] = <<Sub(R(0), dest_there[2][1]), dest_there[2][2]>>
        /\ dest_dist[1] = R(0) =>
              /\ dest_back[1] = dest_origin
              /\ ZeroStep(dest_there[2])
              /\ ZeroStep(dest_back[2])

\* C17 witness: a round trip northwards along the meridian came back to the
\* origin's latitude
C17_Witness ==
    /\ dest_pc = "back"
    /\ dest_origin = Norm(3, 5)
    /\ dest_bearing = 0
    /\ dest_dist = <<Norm(5, 13), Norm(12, 13)>>
    /\ dest_there[1] = Norm(56, 65)
    /\ dest_back[1] = Norm(3, 5)

====
